---------------------------- MODULE Spec2Model ----------------------------
(***************************************************************************)
(* A model of sm2mml (src/src/lib.rs): the StarMath to MathML converter.   *)
(*                                                                         *)
(* A string is a sequence of characters.  An ASCII character is the        *)
(* one-letter string holding it; a non-ASCII character is the string       *)
(* naming its code point ("U+00D7" is the multiplication sign), and        *)
(* Utf8Len gives the number of bytes Rust's str::len counts for it.        *)
(*                                                                         *)
(* One conversion is one behaviour: Begin writes the document's opening    *)
(* events and tokenizes the input, the parser then runs as a stack         *)
(* machine (one frame per active call of a Parser method, one action per   *)
(* stretch of code between two calls), and Finish writes the annotation    *)
(* and the closing events.  A Rust panic ends the behaviour in pc="panic". *)
(***************************************************************************)
EXTENDS Integers, Sequences, FiniteSets, TLC

VARIABLES
    input,    \* starmath: the raw input string
    pc,       \* "start", "parsing", "done" or "panic"
    parsers,  \* the live Parser objects {tokens, pos}; parsers[1] is the outer one
    stack,    \* the call stack of Parser methods, innermost frame last
    out       \* the events written to the quick_xml Writer so far

vars == <<input, pc, parsers, stack, out>>

----------------------------------------------------------------------------
(* Characters and strings                                                  *)

TwoByteChars == {"U+00D7", "U+00B1", "U+00B4", "U+03B1"}
ThreeByteChars == {"U+2212", "U+2211"}

\* The bytes of one character in UTF-8.
Utf8Len(c) ==
    IF c \in TwoByteChars THEN 2 ELSE IF c \in ThreeByteChars THEN 3 ELSE 1

\* str::len: the length of a string in bytes, the sum of Utf8Len over its
\* characters (one byte each, one more for a character of two bytes and two
\* more for one of three).
ByteLen(s) ==
    Len(s) + Cardinality({i \in 1..Len(s) : Utf8Len(s[i]) = 2})
           + 2 * Cardinality({i \in 1..Len(s) : Utf8Len(s[i]) = 3})

\* str::chars().count() as used by the claims: the length in characters.
CharLen(s) == Len(s)

\* pat occurs in s at index i.
MatchesAt(s, i, pat) ==
    i + Len(pat) - 1 <= Len(s) /\ SubSeq(s, i, i + Len(pat) - 1) = pat

\* str::replace from index i on: every non-overlapping match of pat, found
\* left to right, is replaced by rep; the replacement is not scanned again.
RECURSIVE ReplaceFrom(_, _, _, _)
ReplaceFrom(s, i, pat, rep) ==
    IF i > Len(s) THEN <<>>
    ELSE IF MatchesAt(s, i, pat)
         THEN rep \o ReplaceFrom(s, i + Len(pat), pat, rep)
         ELSE <<s[i]>> \o ReplaceFrom(s, i + 1, pat, rep)

\* str::replace
Replace(s, pat, rep) == ReplaceFrom(s, 1, pat, rep)

EntQuot == <<"&","q","u","o","t",";">>
EntAmp == <<"&","a","m","p",";">>
EntLt == <<"&","l","t",";">>
EntGt == <<"&","g","t",";">>

\* A variant whose last pass writes the ampersand for "&gt;".
decode_html_entities_gt_as_amp(s) ==
    Replace(Replace(Replace(Replace(s, EntQuot, <<"\"">>), EntAmp, <<"&">>),
                    EntLt, <<"<">>), EntGt, <<"&">>)

\* decode_html_entities: four passes of str::replace, in this order.
decode_html_entities(s) ==
    Replace(Replace(Replace(Replace(s, EntQuot, <<"\"">>), EntAmp, <<"&">>),
                    EntLt, <<"<">>), EntGt, <<">">>)

----------------------------------------------------------------------------
(* Tokens and the tokenizer                                                *)

Word(s) == [t |-> "Word", s |-> s]
Str(s) == [t |-> "String", s |-> s]
LBrace == [t |-> "LBrace", s |-> <<>>]
RBrace == [t |-> "RBrace", s |-> <<>>]
\* Option::None, for peek() past the end.
None == [t |-> "None", s |-> <<>>]

Whitespace == {" ", "\t", "\n"}
WordBreak == {" ", "{", "}", "\"", "\t", "\n"}

\* The number of characters of s from index i on that come before the
\* first one in stop.
RECURSIVE SpanLen(_, _, _)
SpanLen(s, i, stop) ==
    IF i > Len(s) \/ s[i] \in stop THEN 0 ELSE 1 + SpanLen(s, i + 1, stop)

\* The loop of tokenize: the characters of cs from index i on, tokens so
\* far acc.
RECURSIVE TokenizeFrom(_, _, _)
TokenizeFrom(cs, i, acc) ==
    IF i > Len(cs) THEN acc
    ELSE IF cs[i] \in Whitespace THEN TokenizeFrom(cs, i + 1, acc)
    ELSE IF cs[i] = "{" THEN TokenizeFrom(cs, i + 1, Append(acc, LBrace))
    ELSE IF cs[i] = "}" THEN TokenizeFrom(cs, i + 1, Append(acc, RBrace))
    ELSE IF cs[i] = "\""
         THEN LET n == SpanLen(cs, i + 1, {"\""})
              IN  \* the closing quote, when there is one, is consumed
                  TokenizeFrom(cs, i + n + 2,
                               Append(acc, Str(SubSeq(cs, i + 1, i + n))))
         ELSE LET n == SpanLen(cs, i, WordBreak)
              IN  TokenizeFrom(cs, i + n,
                               Append(acc, Word(SubSeq(cs, i, i + n - 1))))

\* tokenize: the input is decoded, then scanned.
tokenize(s) == TokenizeFrom(decode_html_entities(s), 1, <<>>)

----------------------------------------------------------------------------
(* Keywords and word classes of parse_element and parse_group              *)

KwAcute == <<"a","c","u","t","e">>
KwSqrt == <<"s","q","r","t">>
KwSum == <<"s","u","m">>
KwLeft == <<"l","e","f","t">>
KwRight == <<"r","i","g","h","t">>
KwRsub == <<"r","s","u","b">>
KwCaret == <<"^">>
KwOver == <<"o","v","e","r">>

\* The words parse_element hands to a structural handler.
HandlerWords == {KwAcute, KwSqrt, KwSum, KwLeft}

OperatorGlyphs ==
    {<<"U+00B1">>, <<"+","-">>, <<"U+2212">>, <<"-">>, <<"U+00D7">>, <<"*">>,
     <<"t","i","m","e","s">>}

FunctionNames ==
    {<<"s","i","n">>, <<"c","o","s">>, <<"t","a","n">>, <<"s","e","c">>,
     <<"c","s","c">>, <<"c","o","t">>, <<"s","i","n","h">>,
     <<"c","o","s","h">>, <<"t","a","n","h">>, <<"s","e","c","h">>,
     <<"c","s","c","h">>, <<"c","o","t","h">>,
     <<"a","r","c","s","i","n">>, <<"a","r","c","c","o","s">>,
     <<"a","r","c","t","a","n">>, <<"a","r","c","s","e","c">>,
     <<"a","r","c","c","s","c">>, <<"a","r","c","c","o","t">>,
     <<"l","o","g">>, <<"l","n">>, <<"l","g">>, <<"e","x","p">>,
     <<"l","i","m">>, <<"s","u","p">>, <<"i","n","f">>, <<"m","a","x">>,
     <<"m","i","n">>, <<"d","e","t">>, <<"d","i","m">>, <<"k","e","r">>,
     <<"d","e","g">>, <<"g","c","d">>, <<"l","c","m">>, <<"P","r">>,
     <<"h","o","m">>, <<"a","r","g">>, <<"m","o","d">>}

Digits == {"0", "1", "2", "3", "4", "5", "6", "7", "8", "9"}

\* word.chars().all(|c| c.is_ascii_digit() || c == ',')
is_number(word) == \A i \in 1..Len(word) : word[i] \in Digits \cup {","}

is_function(word) == word \in FunctionNames

\* The element parse_group wraps a postfix construct in, by its keyword.
OpElement(op) ==
    IF op = KwRsub THEN "msub" ELSE IF op = KwCaret THEN "msup" ELSE "mfrac"

PostfixOps == {KwRsub, KwCaret, KwOver}

----------------------------------------------------------------------------
(* Events written to the Writer                                            *)

Start(name, attrs) ==
    [k |-> "Start", name |-> name, attrs |-> attrs, text |-> <<>>]
End(name) == [k |-> "End", name |-> name, attrs |-> <<>>, text |-> <<>>]
Text(s) == [k |-> "Text", name |-> "", attrs |-> <<>>, text |-> s]
Decl == [k |-> "Decl", name |-> "xml", attrs |-> <<>>, text |-> <<>>]

\* "  ".repeat(n)
RECURSIVE Spaces(_)
Spaces(n) == IF n = 0 THEN <<>> ELSE <<" ", " ">> \o Spaces(n - 1)

\* Event::Text of format!("\n{}", "  ".repeat(n))
Indent(n) == Text(<<"\n">> \o Spaces(n))

Italic == <<"mathvariant", "italic">>
Stretchy(v) == <<"stretchy", v>>

Leaf(name, attrs, s) == <<Start(name, attrs), Text(s), End(name)>>

\* A variant that styles by the word's length alone, functions included.
WordEventsNoFunctions(word) ==
    IF is_number(word) THEN Leaf("mn", <<>>, word)
    ELSE Leaf("mi", IF ByteLen(word) > 1 THEN <<Italic>> ELSE <<>>, word)

\* The last arm of parse_element's match on a Word: a number or an
\* identifier.  word.len() is the length in bytes.
WordEvents(word) ==
    IF is_number(word) THEN Leaf("mn", <<>>, word)
    ELSE Leaf("mi",
              IF ByteLen(word) > 1 /\ ~is_function(word)
              THEN <<Italic>> ELSE <<>>,
              word)

FenceMo(form, glyph) ==
    Leaf("mo", <<<<"fence", "true">>, <<"form", form>>, Stretchy("true")>>,
         glyph)

\* What starmath_to_mathml writes before it parses.
Prologue ==
    <<Decl, Text(<<"\n">>),
      Start("math", <<<<"xmlns", "http://www.w3.org/1998/Math/MathML">>,
                      <<"display", "block">>>>),
      Indent(1), Start("semantics", <<>>), Indent(2),
      Start("mrow", <<>>), Indent(3)>>

\* The threshold of the annotation's multiline form, in bytes.
AnnotationWrap == 70

\* What starmath_to_mathml writes after parsing; decoded is the decoded
\* raw input.
Epilogue(decoded) ==
    <<Indent(2), End("mrow"), Indent(2),
      Start("annotation", <<<<"encoding", "StarMath 5.0">>>>)>>
    \o (IF ByteLen(decoded) > AnnotationWrap
        THEN <<Indent(3), Text(decoded)>>
        ELSE <<Text(decoded)>>)
    \o <<End("annotation"), Indent(1), End("semantics"), Text(<<"\n">>),
         End("math"), Text(<<"\n">>)>>

----------------------------------------------------------------------------
(* The Parser: cursor, slices and call frames                              *)

\* Parser::peek: the token at pos, or None.
Peek(p) == IF p.pos < Len(p.tokens) THEN p.tokens[p.pos + 1] ELSE None

\* Parser::advance: pos moves on unless it is at the end.
Advance(p) == IF p.pos < Len(p.tokens) THEN [p EXCEPT !.pos = @ + 1] ELSE p

\* Vec::get(i), for a 0-based i.
Get(tokens, i) == IF i < Len(tokens) THEN tokens[i + 1] ELSE None

\* The slice tokens[a..b] (0-based, b exclusive) and whether taking it
\* returns rather than panics.
SliceOk(tokens, a, b) == 0 <= a /\ a <= b /\ b <= Len(tokens)
Slice(tokens, a, b) == SubSeq(tokens, a + 1, b)

\* parse_group's scan for the end of the group: temp_pos when the loop ends.
RECURSIVE ScanGroup(_, _, _)
ScanGroup(tokens, temp_pos, brace_count) ==
    IF temp_pos < Len(tokens) /\ brace_count > 0
    THEN ScanGroup(tokens, temp_pos + 1,
                   IF tokens[temp_pos + 1] = LBrace THEN brace_count + 1
                   ELSE IF tokens[temp_pos + 1] = RBrace THEN brace_count - 1
                   ELSE brace_count)
    ELSE temp_pos

NewFrame(fn, self, depth) ==
    [fn |-> fn, pc |-> "start", self |-> self, depth |-> depth,
     first |-> TRUE, group_end |-> 0, elem |-> ""]

Top == stack[Len(stack)]
Self == parsers[Top.self]
At(fn, lbl) ==
    pc = "parsing" /\ stack # <<>> /\ Top.fn = fn /\ Top.pc = lbl

\* The stack after the running method returns.
Pop == SubSeq(stack, 1, Len(stack) - 1)
\* The stack after the running method, continuing as frame cont, calls fn.
Call(cont, fn, self, depth) ==
    Append([stack EXCEPT ![Len(stack)] = cont], NewFrame(fn, self, depth))
\* The parsers with the running method's own parser replaced by p.
WithSelf(p) == [parsers EXCEPT ![Top.self] = p]

----------------------------------------------------------------------------
(* starmath_to_mathml, first half, and parse_starmath                      *)

Begin ==
    /\ pc = "start"
    /\ out' = Prologue
    /\ parsers' = <<[tokens |-> tokenize(input), pos |-> 0]>>
    /\ stack' = <<NewFrame("parse_expression", 1, 0)>>
    /\ pc' = "parsing"
    /\ UNCHANGED input

----------------------------------------------------------------------------
(* Parser::parse_expression                                                *)

\* The loop ends: the sequence is exhausted or the cursor is at an RBrace.
ParseExpressionReturn ==
    /\ At("parse_expression", "start")
    /\ Peek(Self).t \in {"None", "RBrace"}
    /\ stack' = Pop
    /\ UNCHANGED <<input, pc, parsers, out>>

\* One iteration: the indentation before every element but the first, then
\* the call of parse_element.
ParseExpressionStep ==
    /\ At("parse_expression", "start")
    /\ Peek(Self).t \notin {"None", "RBrace"}
    /\ out' = IF Top.first THEN out ELSE Append(out, Indent(3 + Top.depth))
    /\ stack' = Call([Top EXCEPT !.first = FALSE],
                     "parse_element", Top.self, Top.depth)
    /\ UNCHANGED <<input, pc, parsers>>

----------------------------------------------------------------------------
(* Parser::parse_element                                                   *)

ParseElementNone ==
    /\ At("parse_element", "start")
    /\ Peek(Self) = None
    /\ stack' = Pop
    /\ UNCHANGED <<input, pc, parsers, out>>

\* "acute", "sqrt", "sum", "left": the handler is called on the same parser.
ParseElementHandler ==
    /\ At("parse_element", "start")
    /\ Peek(Self).t = "Word" /\ Peek(Self).s \in HandlerWords
    /\ LET word == Peek(Self).s
           fn == IF word = KwAcute THEN "parse_accent"
                 ELSE IF word = KwSqrt THEN "parse_sqrt"
                 ELSE IF word = KwSum THEN "parse_sum"
                 ELSE "parse_left_fence"
       IN  stack' = Call([Top EXCEPT !.pc = "end"], fn, Top.self, Top.depth)
    /\ UNCHANGED <<input, pc, parsers, out>>

\* "right": this token and the next one are skipped.
ParseElementRight ==
    /\ At("parse_element", "start")
    /\ Peek(Self) = Word(KwRight)
    /\ parsers' = WithSelf(Advance(Advance(Self)))
    /\ stack' = Pop
    /\ UNCHANGED <<input, pc, out>>

ParseElementOperator ==
    /\ At("parse_element", "start")
    /\ Peek(Self).t = "Word" /\ Peek(Self).s \in OperatorGlyphs
    /\ parsers' = WithSelf(Advance(Self))
    /\ out' = out \o Leaf("mo", <<>>, Peek(Self).s)
    /\ stack' = Pop
    /\ UNCHANGED <<input, pc>>

ParseElementWord ==
    /\ At("parse_element", "start")
    /\ Peek(Self).t = "Word"
    /\ Peek(Self).s \notin HandlerWords \cup {KwRight} \cup OperatorGlyphs
    /\ parsers' = WithSelf(Advance(Self))
    /\ out' = out \o WordEvents(Peek(Self).s)
    /\ stack' = Pop
    /\ UNCHANGED <<input, pc>>

ParseElementString ==
    /\ At("parse_element", "start")
    /\ Peek(Self).t = "String"
    /\ parsers' = WithSelf(Advance(Self))
    /\ out' = out \o Leaf("mtext", <<>>, Peek(Self).s)
    /\ stack' = Pop
    /\ UNCHANGED <<input, pc>>

ParseElementLBrace ==
    /\ At("parse_element", "start")
    /\ Peek(Self) = LBrace
    /\ parsers' = WithSelf(Advance(Self))
    /\ stack' = Call([Top EXCEPT !.pc = "end"],
                     "parse_group", Top.self, Top.depth)
    /\ UNCHANGED <<input, pc, out>>

\* An RBrace: nothing is written and the cursor stays.
ParseElementRBrace ==
    /\ At("parse_element", "start")
    /\ Peek(Self) = RBrace
    /\ stack' = Pop
    /\ UNCHANGED <<input, pc, parsers, out>>

\* The handler or parse_group has returned: Ok(()).
ParseElementEnd ==
    /\ At("parse_element", "end")
    /\ stack' = Pop
    /\ UNCHANGED <<input, pc, parsers, out>>

----------------------------------------------------------------------------
(* Parser::parse_group.  It runs with the cursor just past the LBrace.     *)

\* group_end: the index after the matching RBrace, or the sequence's length.
GroupEnd == ScanGroup(Self.tokens, Self.pos, 1)

\* The token after the group is "rsub", "^" or "over".
IsPostfix ==
    /\ Get(Self.tokens, GroupEnd).t = "Word"
    /\ Get(Self.tokens, GroupEnd).s \in PostfixOps

\* Whether self.tokens[group_start..group_end - 1] can be taken.
GroupSliceOk == SliceOk(Self.tokens, Self.pos, GroupEnd - 1)
SubParser ==
    [tokens |-> Slice(Self.tokens, Self.pos, GroupEnd - 1), pos |-> 0]

\* What the postfix arms write before they take the slice.
PostfixOpening ==
    <<Start(OpElement(Get(Self.tokens, GroupEnd).s), <<>>),
      Indent(4 + Top.depth)>>

\* The slice's end lies before its start: the index panics.
ParseGroupPanic ==
    /\ At("parse_group", "start")
    /\ ~GroupSliceOk
    /\ out' = IF IsPostfix THEN out \o PostfixOpening ELSE out
    /\ pc' = "panic"
    /\ UNCHANGED <<input, parsers, stack>>

\* The "rsub", "^" and "over" arms up to the base: the opening tag, then the
\* group's contents parsed by a parser of their own at depth + 1.
ParseGroupPostfix ==
    /\ At("parse_group", "start")
    /\ IsPostfix /\ GroupSliceOk
    /\ out' = out \o PostfixOpening
    /\ parsers' = Append(parsers, SubParser)
    /\ stack' = Call([Top EXCEPT !.pc = "script", !.group_end = GroupEnd,
                                 !.elem = OpElement(Get(Self.tokens,
                                                        GroupEnd).s)],
                     "parse_expression", Len(parsers) + 1, Top.depth + 1)
    /\ UNCHANGED <<input, pc>>

\* A variant that leaves the cursor on the keyword.
ParseGroupScriptKeepsKeyword ==
    /\ At("parse_group", "script")
    /\ out' = Append(out, Indent(4 + Top.depth))
    /\ parsers' = [SubSeq(parsers, 1, Len(parsers) - 1)
                      EXCEPT ![Top.self].pos = Top.group_end]
    /\ stack' = Call([Top EXCEPT !.pc = "close"],
                     "parse_element", Top.self, Top.depth + 1)
    /\ UNCHANGED <<input, pc>>

\* The base is written: the cursor skips the keyword and one element, the
\* script or denominator, is parsed.
ParseGroupScript ==
    /\ At("parse_group", "script")
    /\ out' = Append(out, Indent(4 + Top.depth))
    /\ parsers' = [SubSeq(parsers, 1, Len(parsers) - 1)
                      EXCEPT ![Top.self].pos = Top.group_end + 1]
    /\ stack' = Call([Top EXCEPT !.pc = "close"],
                     "parse_element", Top.self, Top.depth + 1)
    /\ UNCHANGED <<input, pc>>

\* The closing tag; an RBrace at the cursor is skipped.
ParseGroupClose ==
    /\ At("parse_group", "close")
    /\ out' = out \o <<Indent(3 + Top.depth), End(Top.elem)>>
    /\ parsers' = IF Peek(Self) = RBrace THEN WithSelf(Advance(Self))
                  ELSE parsers
    /\ stack' = Pop
    /\ UNCHANGED <<input, pc>>

\* A plain group: its contents are parsed by a parser of their own at the
\* same depth.
ParseGroupPlain ==
    /\ At("parse_group", "start")
    /\ ~IsPostfix /\ GroupSliceOk
    /\ parsers' = Append(parsers, SubParser)
    /\ stack' = Call([Top EXCEPT !.pc = "plain", !.group_end = GroupEnd],
                     "parse_expression", Len(parsers) + 1, Top.depth)
    /\ UNCHANGED <<input, pc, out>>

\* The contents are written: the cursor moves to group_end.
ParseGroupPlainEnd ==
    /\ At("parse_group", "plain")
    /\ parsers' = [SubSeq(parsers, 1, Len(parsers) - 1)
                      EXCEPT ![Top.self].pos = Top.group_end]
    /\ stack' = Pop
    /\ UNCHANGED <<input, pc, out>>

----------------------------------------------------------------------------
(* Parser::parse_accent, parse_sqrt, parse_sum                             *)

ParseAccent ==
    /\ At("parse_accent", "start")
    /\ parsers' = WithSelf(Advance(Self))
    /\ out' = out \o <<Start("mover", <<<<"accent", "true">>>>),
                       Indent(4 + Top.depth)>>
    /\ stack' = Call([Top EXCEPT !.pc = "close"],
                     "parse_element", Top.self, Top.depth + 1)
    /\ UNCHANGED <<input, pc>>

ParseAccentClose ==
    /\ At("parse_accent", "close")
    /\ out' = out \o <<Indent(4 + Top.depth)>>
                  \o Leaf("mo", <<Stretchy("false")>>, <<"U+00B4">>)
                  \o <<Indent(3 + Top.depth), End("mover")>>
    /\ stack' = Pop
    /\ UNCHANGED <<input, pc, parsers>>

ParseSqrt ==
    /\ At("parse_sqrt", "start")
    /\ parsers' = WithSelf(Advance(Self))
    /\ out' = out \o <<Start("msqrt", <<>>), Indent(4 + Top.depth)>>
    /\ stack' = Call([Top EXCEPT !.pc = "close"],
                     "parse_element", Top.self, Top.depth + 1)
    /\ UNCHANGED <<input, pc>>

ParseSqrtClose ==
    /\ At("parse_sqrt", "close")
    /\ out' = out \o <<Indent(3 + Top.depth), End("msqrt")>>
    /\ stack' = Pop
    /\ UNCHANGED <<input, pc, parsers>>

ParseSum ==
    /\ At("parse_sum", "start")
    /\ parsers' = WithSelf(Advance(Self))
    /\ out' = out \o <<Start("mrow", <<>>), Indent(4 + Top.depth)>>
                  \o Leaf("mo", <<Stretchy("false")>>, <<"U+2211">>)
                  \o <<Indent(4 + Top.depth), Start("mrow", <<>>),
                       Indent(5 + Top.depth)>>
    /\ stack' = Call([Top EXCEPT !.pc = "close"],
                     "parse_element", Top.self, Top.depth + 2)
    /\ UNCHANGED <<input, pc>>

ParseSumClose ==
    /\ At("parse_sum", "close")
    /\ out' = out \o <<Indent(4 + Top.depth), End("mrow"),
                       Indent(3 + Top.depth), End("mrow")>>
    /\ stack' = Pop
    /\ UNCHANGED <<input, pc, parsers>>

----------------------------------------------------------------------------
(* Parser::parse_left_fence                                                *)

\* "left" is skipped; no Word follows it: the handler returns at once.
ParseLeftFenceNoFence ==
    /\ At("parse_left_fence", "start")
    /\ Peek(Advance(Self)).t # "Word"
    /\ parsers' = WithSelf(Advance(Self))
    /\ stack' = Pop
    /\ UNCHANGED <<input, pc, out>>

\* "left" and the fence Word are skipped; the outer mrow, the prefix fence
\* and the two inner mrows are opened.
ParseLeftFenceOpen ==
    /\ At("parse_left_fence", "start")
    /\ Peek(Advance(Self)).t = "Word"
    /\ parsers' = WithSelf(Advance(Advance(Self)))
    /\ out' = out \o <<Start("mrow", <<>>), Indent(4 + Top.depth)>>
                  \o FenceMo("prefix", Peek(Advance(Self)).s)
                  \o <<Indent(4 + Top.depth), Start("mrow", <<>>),
                       Indent(5 + Top.depth), Start("mrow", <<>>),
                       Indent(6 + Top.depth)>>
    /\ stack' = [stack EXCEPT ![Len(stack)].pc = "loop"]
    /\ UNCHANGED <<input, pc>>

\* The sibling loop goes on: the token is neither missing nor "right".
FenceLoopContinues == Peek(Self) # None /\ Peek(Self) # Word(KwRight)

\* One iteration, first half: parse_element at depth + 3.
FenceLoopElement ==
    /\ At("parse_left_fence", "loop")
    /\ FenceLoopContinues
    /\ stack' = Call([Top EXCEPT !.pc = "after"],
                     "parse_element", Top.self, Top.depth + 3)
    /\ UNCHANGED <<input, pc, parsers, out>>

\* One iteration, second half: the indentation, written when the next token
\* is a Word other than "right".
FenceLoopAfter ==
    /\ At("parse_left_fence", "after")
    /\ out' = IF Peek(Self).t = "Word" /\ Peek(Self).s # KwRight
              THEN Append(out, Indent(6 + Top.depth))
              ELSE out
    /\ stack' = [stack EXCEPT ![Len(stack)].pc = "loop"]
    /\ UNCHANGED <<input, pc, parsers>>

\* What is written when the loop ends: the two inner mrows are closed.
FenceInnerClose ==
    <<Indent(5 + Top.depth), End("mrow"), Indent(4 + Top.depth), End("mrow"),
      Indent(4 + Top.depth)>>

\* A variant that writes the closing fence with the prefix form.
ParseLeftFenceClosePrefixForm ==
    /\ At("parse_left_fence", "loop")
    /\ ~FenceLoopContinues
    /\ Peek(Advance(Self)).t = "Word"
    /\ parsers' = WithSelf(Advance(Advance(Self)))
    /\ out' = out \o FenceInnerClose
                  \o FenceMo("prefix", Peek(Advance(Self)).s)
                  \o <<Indent(3 + Top.depth), End("mrow")>>
    /\ stack' = Pop
    /\ UNCHANGED <<input, pc>>

\* The loop has ended, "right" is skipped and a Word follows: the postfix
\* fence is written and the outer mrow closed.
ParseLeftFenceClose ==
    /\ At("parse_left_fence", "loop")
    /\ ~FenceLoopContinues
    /\ Peek(Advance(Self)).t = "Word"
    /\ parsers' = WithSelf(Advance(Advance(Self)))
    /\ out' = out \o FenceInnerClose
                  \o FenceMo("postfix", Peek(Advance(Self)).s)
                  \o <<Indent(3 + Top.depth), End("mrow")>>
    /\ stack' = Pop
    /\ UNCHANGED <<input, pc>>

\* The loop has ended and no Word follows the skipped token: the handler
\* returns without writing the closing fence or the outer mrow's end.
ParseLeftFenceNoClosing ==
    /\ At("parse_left_fence", "loop")
    /\ ~FenceLoopContinues
    /\ Peek(Advance(Self)).t # "Word"
    /\ parsers' = WithSelf(Advance(Self))
    /\ out' = out \o FenceInnerClose
    /\ stack' = Pop
    /\ UNCHANGED <<input, pc>>

----------------------------------------------------------------------------
(* starmath_to_mathml, second half                                         *)

\* A variant that writes the raw input as the annotation's text.
FinishRawAnnotation ==
    /\ pc = "parsing" /\ stack = <<>>
    /\ out' = out \o <<Indent(2), End("mrow"), Indent(2),
                       Start("annotation", <<<<"encoding", "StarMath 5.0">>>>),
                       Text(input), End("annotation"), Indent(1),
                       End("semantics"), Text(<<"\n">>), End("math"),
                       Text(<<"\n">>)>>
    /\ pc' = "done"
    /\ UNCHANGED <<input, parsers, stack>>

\* parse_starmath has returned: the presentation mrow is closed and the
\* annotation and the closing tags are written.
Finish ==
    /\ pc = "parsing" /\ stack = <<>>
    /\ \E decoded \in {decode_html_entities(input)} :
          out' = out \o Epilogue(decoded)
    /\ pc' = "done"
    /\ UNCHANGED <<input, parsers, stack>>

----------------------------------------------------------------------------
(* The inputs                                                              *)

RECURSIVE Concat(_)
Concat(ss) == IF ss = <<>> THEN <<>> ELSE Head(ss) \o Concat(Tail(ss))

SeqsUpTo(S, n) == UNION {[1..k -> S] : k \in 0..n}

\* Token sequences of every shape, balanced or not: up to MaxLen of these.
MaxLen == 3
GenPieces ==
    {<<"{">>, <<"}">>, <<"l","e","f","t"," ">>, <<"r","i","g","h","t"," ">>,
     <<"r","s","u","b"," ">>, <<"s","u","m"," ">>, <<"a"," ">>}
GenInputs == {Concat(ps) : ps \in SeqsUpTo(GenPieces, MaxLen)}

\* Strings of escape sequences and their parts: up to MaxEnt of these.
MaxEnt == 3
EntPieces ==
    {<<"&">>, <<"a","m","p",";">>, <<"l","t",";">>, <<"g","t",";">>,
     <<"q","u","o","t",";">>, <<"&","a","m","p",";">>}
EntInputs == {Concat(ps) : ps \in SeqsUpTo(EntPieces, MaxEnt)}

\* Single words: identifiers of one and of several characters, ASCII or
\* not, a number, a function name, an operator glyph and the keywords.
SomeWords ==
    {<<"a">>, <<"a","b">>, <<"U+03B1">>, <<"1","2">>, <<"l","n">>, <<"-">>,
     KwSum, KwSqrt, KwAcute, KwLeft, KwRight}
WordInputs == SomeWords

\* {A} op {B}
PostfixInput(A, op, B) ==
    <<"{">> \o A \o <<"}", " ">> \o op \o <<" ", "{">> \o B \o <<"}">>
PostfixInputs ==
    {PostfixInput(A, op, B) : A \in SomeWords, op \in PostfixOps,
                              B \in SomeWords}

\* left X e1 ... en right Y, for up to MaxFenceElems elements.
MaxFenceElems == 2
OpeningGlyphs == {<<"(">>, KwRight}
ClosingGlyphs == {<<")">>, KwLeft}
FenceElems ==
    {<<"a">>, <<"1","2">>, <<"\"","s","\"">>, <<"{","a","b","}">>,
     <<"{","a","}"," ","o","v","e","r"," ","{","b","}">>,
     <<"s","q","r","t"," ","a">>}
RECURSIVE Spaced(_)
Spaced(es) ==
    IF es = <<>> THEN <<>> ELSE Head(es) \o <<" ">> \o Spaced(Tail(es))
FenceInput(X, es, Y) ==
    KwLeft \o <<" ">> \o X \o <<" ">> \o Spaced(es) \o KwRight \o <<" ">> \o Y
FenceCases ==
    {[X |-> X, es |-> es, Y |-> Y] :
        X \in OpeningGlyphs, es \in SeqsUpTo(FenceElems, MaxFenceElems),
        Y \in ClosingGlyphs}
FenceInputs == {FenceInput(c.X, c.es, c.Y) : c \in FenceCases}

\* The inputs of tests::test_starmath_conversion.
Fixture1 ==
    <<"D"," ","&","q","u","o","t",";","=","&","q","u","o","t",";"," ","C",
      " ","U+2212"," ","M"," ","U+00D7"," ","l","o","g"," ","1","0"," ","s",
      "u","m"," ","{","c","u","a","t","r","o"," ","p","l","i","e","g","e",
      "s","}">>
Fixture2 ==
    <<"&","q","u","o","t",";","%","&","q","u","o","t",";"," ","g","r","a",
      "s","a","c","o","r","p","o","r","a","l"," ","&","q","u","o","t",";",
      "=","&","q","u","o","t",";"," ","l","e","f","t"," ","(","{","4",",",
      "9","5","}"," ","o","v","e","r"," ","{","d","e","n","s","i","d","a",
      "d","}"," ","&","q","u","o","t",";","-","&","q","u","o","t",";"," ",
      "4",",","5"," ","r","i","g","h","t"," ",")"," ","U+00D7"," ","1","0",
      "0">>
Fixture3 ==
    <<"a","c","u","t","e"," ","{","X","}"," ","\"","=","\""," ","U+00B1",
      " ","{","Z","}"," ","r","s","u","b"," ","{","a","l","f","a","}"," ",
      "s","q","r","t"," ","{","{","{","s","}"," ","^"," ","{","2","}","}",
      " ","o","v","e","r"," ","{","n","}","}">>
Fixture4 ==
    <<"P"," ","&","q","u","o","t",";","=","&","q","u","o","t",";"," ",
      "U+00B1"," ","{","Z","}"," ","r","s","u","b"," ","{","a","l","f","a",
      "}"," ","s","q","r","t"," ","{","{","p","q","}"," ","o","v","e","r",
      " ","{","n","}","}">>
Fixtures == {Fixture1, Fixture2, Fixture3, Fixture4}

\* One word of n letters, and inputs about the annotation's threshold: 70
\* bytes, 71 bytes, and 70 characters that take 71 bytes.
RECURSIVE Letters(_)
Letters(n) == IF n = 0 THEN <<>> ELSE <<"a">> \o Letters(n - 1)
WrapInputs ==
    {Letters(AnnotationWrap), Letters(AnnotationWrap + 1),
     Letters(AnnotationWrap - 1) \o <<"U+00D7">>}

\* Constructs followed by a closing brace that matches no opening one, and
\* by one more word.
BeforeBrace ==
    {<<"a">>,
     <<"{","a","}"," ","r","s","u","b"," ","{","b","}">>,
     <<"{","a","}"," ","^"," ","b">>,
     <<"{","a","}"," ","o","v","e","r">>,
     <<"s","q","r","t"," ","a">>,
     <<"r","i","g","h","t">>,
     <<"r","i","g","h","t"," ",")">>,
     <<"l","e","f","t"," ","("," ","a"," ","r","i","g","h","t"," ",")">>}
UnmatchedInputs == {b \o <<" ", "}", " ", "c">> : b \in BeforeBrace}

\* Groups that are never closed, and scripts on a base of several elements
\* or without an operand.
OpenGroupInputs ==
    {<<"{","a"," ","b">>, <<"a"," ","{","b"," ","c"," ","d">>,
     <<"{","a"," ","{","b","}">>, <<"{","{","a","}"," ","b">>}
ArityInputs ==
    {<<"{","a"," ","b","}"," ","r","s","u","b"," ","c">>,
     <<"{","a","}"," ","r","s","u","b">>,
     <<"{","a","}"," ","o","v","e","r"," ","{","b"," ","c","}">>,
     <<"{","a"," ","b","}"," ","^"," ","{","c","}">>}

Inputs ==
    GenInputs \cup EntInputs \cup WordInputs \cup PostfixInputs
    \cup FenceInputs \cup Fixtures \cup WrapInputs
    \cup UnmatchedInputs \cup OpenGroupInputs \cup ArityInputs

----------------------------------------------------------------------------
(* The specification                                                       *)

Init ==
    /\ input \in Inputs
    /\ pc = "start"
    /\ parsers = <<>>
    /\ stack = <<>>
    /\ out = <<>>

\* The steps of the parser, from parse_starmath's call of parse_expression
\* to its return.
ParserNext ==
    \/ ParseExpressionReturn
    \/ ParseExpressionStep
    \/ ParseElementNone
    \/ ParseElementHandler
    \/ ParseElementRight
    \/ ParseElementOperator
    \/ ParseElementWord
    \/ ParseElementString
    \/ ParseElementLBrace
    \/ ParseElementRBrace
    \/ ParseElementEnd
    \/ ParseGroupPanic
    \/ ParseGroupPostfix
    \/ ParseGroupScript
    \/ ParseGroupClose
    \/ ParseGroupPlain
    \/ ParseGroupPlainEnd
    \/ ParseAccent
    \/ ParseAccentClose
    \/ ParseSqrt
    \/ ParseSqrtClose
    \/ ParseSum
    \/ ParseSumClose
    \/ ParseLeftFenceNoFence
    \/ ParseLeftFenceOpen
    \/ FenceLoopElement
    \/ FenceLoopAfter
    \/ ParseLeftFenceClose
    \/ ParseLeftFenceNoClosing

Next == Begin \/ ParserNext \/ Finish

Spec == Init /\ [][Next]_vars

\* The parser is sequential code running on one thread: while a step of it
\* can be taken, one is taken.
FairSpec == Spec /\ WF_vars(ParserNext)

----------------------------------------------------------------------------
(* What the claims speak of                                                *)

Done == pc = "done"
\* The outermost parse_expression has returned, or the parser has panicked.
ParsingEnded == pc = "panic" \/ (pc \in {"parsing", "done"} /\ stack = <<>>)

\* The outer parser's token sequence and cursor.
Tokens == parsers[1].tokens
Cursor == parsers[1].pos

\* The presentation fragment: what the parser has written, between the
\* opening events and (once written) the closing ones.
Fragment ==
    SubSeq(out, Len(Prologue) + 1,
           IF Done THEN Len(out) - Len(Epilogue(decode_html_entities(input)))
           ELSE Len(out))

\* An indentation event: a newline followed by spaces only.
IsIndent(e) ==
    /\ e.k = "Text" /\ e.text # <<>> /\ e.text[1] = "\n"
    /\ \A i \in 2..Len(e.text) : e.text[i] = " "
NotIndent(e) == ~IsIndent(e)
\* The events without the indentation: the element structure.
Structure(evs) == SelectSeq(evs, NotIndent)

\* Start and End events pair up, last opened first closed; open is the
\* sequence of the names opened and not yet closed.
RECURSIVE BalancedFrom(_, _)
BalancedFrom(evs, open) ==
    IF evs = <<>> THEN open = <<>>
    ELSE LET e == Head(evs) IN
         IF e.k = "Start" THEN BalancedFrom(Tail(evs), Append(open, e.name))
         ELSE IF e.k = "End"
              THEN /\ open # <<>>
                   /\ open[Len(open)] = e.name
                   /\ BalancedFrom(Tail(evs), SubSeq(open, 1, Len(open) - 1))
              ELSE BalancedFrom(Tail(evs), open)
Balanced(evs) == BalancedFrom(evs, <<>>)

\* The number of elements at the top level of a balanced event sequence.
RECURSIVE TopLevelFrom(_, _)
TopLevelFrom(evs, depth) ==
    IF evs = <<>> THEN 0
    ELSE LET e == Head(evs) IN
         IF e.k = "Start"
         THEN (IF depth = 0 THEN 1 ELSE 0) + TopLevelFrom(Tail(evs), depth + 1)
         ELSE IF e.k = "End" THEN TopLevelFrom(Tail(evs), depth - 1)
         ELSE TopLevelFrom(Tail(evs), depth)
TopLevel(evs) == TopLevelFrom(evs, 0)

\* The text content of the annotation element of the document.
RECURSIVE AnnotationTextFrom(_, _)
AnnotationTextFrom(evs, inside) ==
    IF evs = <<>> THEN <<>>
    ELSE LET e == Head(evs) IN
         IF e.k = "Start" /\ e.name = "annotation"
         THEN AnnotationTextFrom(Tail(evs), TRUE)
         ELSE IF e.k = "End" /\ e.name = "annotation" THEN <<>>
         ELSE (IF inside /\ e.k = "Text" THEN e.text ELSE <<>>)
              \o AnnotationTextFrom(Tail(evs), inside)
AnnotationText == AnnotationTextFrom(out, FALSE)

\* The decoded input as Finish wrote it: the annotation's last text event.
DecodedWritten == out[Len(out) - 6].text

Contains(s, pat) ==
    \E i \in 1..(Len(s) - Len(pat) + 1) : SubSeq(s, i, i + Len(pat) - 1) = pat

\* The least index from which block occurs in evs at or after from; 0 when
\* there is none.
RECURSIVE FindBlock(_, _, _)
FindBlock(evs, block, from) ==
    IF from + Len(block) - 1 > Len(evs) THEN 0
    ELSE IF SubSeq(evs, from, from + Len(block) - 1) = block THEN from
    ELSE FindBlock(evs, block, from + 1)

\* The blocks occur in evs, one after the other, in this order.
RECURSIVE ContainsInOrderFrom(_, _, _)
ContainsInOrderFrom(evs, blocks, from) ==
    IF blocks = <<>> THEN TRUE
    ELSE LET i == FindBlock(evs, Head(blocks), from) IN
         /\ i # 0
         /\ ContainsInOrderFrom(evs, Tail(blocks), i + Len(Head(blocks)))
ContainsInOrder(evs, blocks) == ContainsInOrderFrom(evs, blocks, 1)

----------------------------------------------------------------------------
(* The claims                                                              *)

\* C1: whatever the shape of the token sequence, unbalanced braces
\* included, the conversion never panics.
C1_NeverPanics == pc # "panic"

\* C2: once the conversion is done, the element events the parser wrote are
\* balanced and properly nested: every start-element event is matched by an
\* end-element event of the same name, last opened first closed.
C2_EventsBalanced == Done => Balanced(Fragment)

\* C3: parsing terminates for every token sequence: once the parser has
\* started, it eventually returns to parse_starmath (or is stopped by a
\* panic).
C3_ParsingTerminates == (pc = "parsing") ~> ParsingEnded

\* What parse_element writes for a Word that stands alone with nothing
\* after it (indentation left out): a handler keyword opens
\* and closes its construct around no operand, "left" and "right" write
\* nothing, an operator glyph is an mo, any other word an mn or mi.
LoneWord(w) ==
    IF w = KwSum
    THEN <<Start("mrow", <<>>)>>
         \o Leaf("mo", <<Stretchy("false")>>, <<"U+2211">>)
         \o <<Start("mrow", <<>>), End("mrow"), End("mrow")>>
    ELSE IF w = KwSqrt THEN <<Start("msqrt", <<>>), End("msqrt")>>
    ELSE IF w = KwAcute
    THEN <<Start("mover", <<<<"accent", "true">>>>)>>
         \o Leaf("mo", <<Stretchy("false")>>, <<"U+00B4">>)
         \o <<End("mover")>>
    ELSE IF w \in {KwLeft, KwRight} THEN <<>>
    ELSE IF w \in OperatorGlyphs THEN Leaf("mo", <<>>, w)
    ELSE WordEvents(w)

\* The token sequence has the shape {A} op {B}, A and B single words.
IsPostfixShape ==
    /\ Len(Tokens) = 7
    /\ Tokens[1] = LBrace /\ Tokens[2].t = "Word" /\ Tokens[3] = RBrace
    /\ Tokens[4].t = "Word" /\ Tokens[4].s \in PostfixOps
    /\ Tokens[5] = LBrace /\ Tokens[6].t = "Word" /\ Tokens[7] = RBrace

\* The fragment is one op element with exactly two children, the rendering
\* of A and then that of B, and the cursor is at the end of the sequence.
PostfixRendered ==
    LET A == Tokens[2].s
        B == Tokens[6].s
        e == OpElement(Tokens[4].s)
    IN  /\ Structure(Fragment)
             = <<Start(e, <<>>)>> \o LoneWord(A) \o LoneWord(B) \o <<End(e)>>
        /\ TopLevel(LoneWord(A)) = 1
        /\ TopLevel(LoneWord(B)) = 1
        /\ Cursor = Len(Tokens)

ElemRendering(e) ==
    CASE e = <<"a">> -> Leaf("mi", <<>>, <<"a">>)
      [] e = <<"1","2">> -> Leaf("mn", <<>>, <<"1","2">>)
      [] e = <<"\"","s","\"">> -> Leaf("mtext", <<>>, <<"s">>)
      [] e = <<"{","a","b","}">> -> Leaf("mi", <<Italic>>, <<"a","b">>)
      [] e = <<"{","a","}"," ","o","v","e","r"," ","{","b","}">> ->
             <<Start("mfrac", <<>>)>> \o Leaf("mi", <<>>, <<"a">>)
             \o Leaf("mi", <<>>, <<"b">>) \o <<End("mfrac")>>
      [] e = <<"s","q","r","t"," ","a">> ->
             <<Start("msqrt", <<>>)>> \o Leaf("mi", <<>>, <<"a">>)
             \o <<End("msqrt")>>
RECURSIVE Renderings(_)
Renderings(es) ==
    IF es = <<>> THEN <<>> ELSE ElemRendering(Head(es)) \o Renderings(Tail(es))

\* An mrow holding the prefix fence X, an mrow in an mrow around the
\* renderings of es, and the postfix fence Y.
FenceRendering(X, es, Y) ==
    <<Start("mrow", <<>>)>> \o FenceMo("prefix", X)
    \o <<Start("mrow", <<>>), Start("mrow", <<>>)>>
    \o Renderings(es)
    \o <<End("mrow"), End("mrow")>>
    \o FenceMo("postfix", Y) \o <<End("mrow")>>

\* C5: for every input left X e1 ... en right Y, X and Y words and the
\* elements free of "right", the fragment is one mrow holding, in this
\* order, the prefix fence mo with text X, an mrow/mrow pair around the
\* renderings of e1..en in input order, and the postfix fence mo with text
\* Y; the cursor ends just after Y, the last token.
C5_FenceShape ==
    Done => \A c \in FenceCases :
                input = FenceInput(c.X, c.es, c.Y)
                    => /\ Structure(Fragment) = FenceRendering(c.X, c.es, c.Y)
                       /\ Cursor = Len(Tokens)
                       /\ Tokens[Cursor] = Word(c.Y)

\* C5's case: a fence around two elements, a fraction among them, is done.
C5_Witness ==
    /\ Done
    /\ input = FenceInput(<<"(">>,
                          <<<<"{","a","}"," ","o","v","e","r"," ","{","b","}">>,
                            <<"1","2">>>>,
                          <<")">>)
    /\ Len(Fragment) > 0

C7_DecodeIdempotent ==
    Done => decode_html_entities(DecodedWritten) = DecodedWritten

\* C7, amended: decoding is idempotent on every string that holds no
\* "&amp;".
C7_DecodeIdempotentWithoutAmp ==
    (Done /\ ~Contains(input, EntAmp))
        => decode_html_entities(DecodedWritten) = DecodedWritten

\* C7's case: an input without "&amp;" that decoding changes has been
\* decoded.
C7_Witness ==
    /\ Done
    /\ ~Contains(input, EntAmp)
    /\ Contains(input, EntLt)
    /\ DecodedWritten # input

\* One left-to-right, non-overlapping pass that replaces each of the four
\* escape sequences where it stands in s and never looks at what it wrote.
RECURSIVE SinglePassFrom(_, _)
SinglePassFrom(s, i) ==
    IF i > Len(s) THEN <<>>
    ELSE IF MatchesAt(s, i, EntQuot)
         THEN <<"\"">> \o SinglePassFrom(s, i + Len(EntQuot))
    ELSE IF MatchesAt(s, i, EntAmp)
         THEN <<"&">> \o SinglePassFrom(s, i + Len(EntAmp))
    ELSE IF MatchesAt(s, i, EntLt)
         THEN <<"<">> \o SinglePassFrom(s, i + Len(EntLt))
    ELSE IF MatchesAt(s, i, EntGt)
         THEN <<">">> \o SinglePassFrom(s, i + Len(EntGt))
    ELSE <<s[i]>> \o SinglePassFrom(s, i + 1)
SinglePass(s) == SinglePassFrom(s, 1)

\* C8: the Entity Decoder's result is that of a single left-to-right,
\* non-overlapping pass over the input; a character produced by decoding
\* never takes part in a further match.
C8_DecodeSinglePass == Done => DecodedWritten = SinglePass(input)

\* The summation of fixture 1: an mrow holding the operator and an inner
\* mrow with the renderings of the two words.
Fixture1Sum ==
    <<Start("mrow", <<>>)>>
    \o Leaf("mo", <<Stretchy("false")>>, <<"U+2211">>)
    \o <<Start("mrow", <<>>)>>
    \o Leaf("mi", <<Italic>>, <<"c","u","a","t","r","o">>)
    \o Leaf("mi", <<Italic>>, <<"p","l","i","e","g","e","s">>)
    \o <<End("mrow"), End("mrow")>>

\* The elements the fragment of fixture 1 holds, given the mi of D.
Fixture1Blocks(miD) ==
    <<miD,
      Leaf("mo", <<>>, <<"U+2212">>),
      Leaf("mo", <<>>, <<"U+00D7">>),
      Leaf("mi", <<>>, <<"l","o","g">>),
      Leaf("mn", <<>>, <<"1","0">>),
      Fixture1Sum>>

\* C9, as claimed: the fragment of fixture 1 holds, in input order, an mi
\* with the italic attribute for D, an mo for each of the two operator
\* glyphs, an mi without attribute for log, an mn for 10, and the summation
\* mrow with the operator and an inner mrow of the two words.
C9_Fixture1ItalicD ==
    (Done /\ input = Fixture1)
        => ContainsInOrder(Structure(Fragment),
                           Fixture1Blocks(Leaf("mi", <<Italic>>, <<"D">>)))

\* C9, amended: the same, with an mi without attribute for D.
C9_Fixture1 ==
    (Done /\ input = Fixture1)
        => ContainsInOrder(Structure(Fragment),
                           Fixture1Blocks(Leaf("mi", <<>>, <<"D">>)))

\* C9's case: the conversion of fixture 1 is done.
C9_Witness == Done /\ input = Fixture1 /\ Len(Fragment) > Len(Fixture1Sum)

\* C10: every mi written for a word that is not a function name carries the
\* italic attribute if and only if the word is more than one character
\* long; a single character, non-ASCII ones included, gets no attribute.
C10_ItalicByCharacters ==
    \A i \in 1..(Len(out) - 1) :
        (/\ out[i].k = "Start" /\ out[i].name = "mi"
         /\ out[i + 1].k = "Text" /\ out[i + 1].text \notin FunctionNames)
            => (out[i].attrs = <<Italic>>) = (CharLen(out[i + 1].text) > 1)

\* The 0-based index of the first RBrace of tokens that matches no LBrace
\* before it, scanning from 0-based index i with open LBraces pending;
\* Len(tokens) when there is none.
RECURSIVE FirstUnmatchedFrom(_, _, _)
FirstUnmatchedFrom(tokens, i, open) ==
    IF i >= Len(tokens) THEN Len(tokens)
    ELSE IF tokens[i + 1] = LBrace
         THEN FirstUnmatchedFrom(tokens, i + 1, open + 1)
    ELSE IF tokens[i + 1] = RBrace
         THEN IF open = 0 THEN i
              ELSE FirstUnmatchedFrom(tokens, i + 1, open - 1)
    ELSE FirstUnmatchedFrom(tokens, i + 1, open)
FirstUnmatched(tokens) == FirstUnmatchedFrom(tokens, 0, 0)

\* C11: for every token sequence the expression ends at the first RBrace
\* that matches no LBrace, and that RBrace is not consumed: the outer cursor
\* never moves past it, so no token after it is parsed or written.  This
\* holds also after the script of rsub, ^ or over and after "right".
C11_UnmatchedBraceStops ==
    (pc \in {"parsing", "done"}) => Cursor <= FirstUnmatched(Tokens)

\* The tokens of a group whose LBrace stands just before 0-based index i:
\* those strictly between the LBrace and its matching RBrace, or all the
\* tokens up to the sequence end when no RBrace matches it; open counts the
\* LBraces pending inside the group.
RECURSIVE GroupContentsFrom(_, _, _)
GroupContentsFrom(tokens, i, open) ==
    IF i >= Len(tokens) THEN <<>>
    ELSE IF tokens[i + 1] = RBrace /\ open = 0 THEN <<>>
    ELSE <<tokens[i + 1]>>
         \o GroupContentsFrom(tokens, i + 1,
                              IF tokens[i + 1] = LBrace THEN open + 1
                              ELSE IF tokens[i + 1] = RBrace THEN open - 1
                              ELSE open)
GroupContents(tokens, i) == GroupContentsFrom(tokens, i, 0)

\* The parser that parses the contents of the plain group of frame i: that
\* of the frame it called, or the newest parser once that frame returned.
ContentsParser(i) ==
    parsers[IF i < Len(stack) THEN stack[i + 1].self ELSE Len(parsers)]

\* C12: the contents parsed for a plain group are exactly the tokens
\* strictly between its braces and, when its LBrace has no matching RBrace,
\* every token after the LBrace up to the sequence end, none dropped.
C12_PlainGroupContents ==
    (pc = "parsing")
        => \A i \in 1..Len(stack) :
               (stack[i].fn = "parse_group" /\ stack[i].pc = "plain")
                   => ContentsParser(i).tokens
                          = GroupContents(parsers[stack[i].self].tokens,
                                          parsers[stack[i].self].pos)

\* The number of child elements of the element whose Start stands just
\* before index j of evs: the Starts met at depth 0 before the End that
\* closes it.
RECURSIVE ChildrenFrom(_, _, _)
ChildrenFrom(evs, j, depth) ==
    IF j > Len(evs) THEN 0
    ELSE IF evs[j].k = "Start"
         THEN (IF depth = 0 THEN 1 ELSE 0) + ChildrenFrom(evs, j + 1, depth + 1)
    ELSE IF evs[j].k = "End"
         THEN IF depth = 0 THEN 0 ELSE ChildrenFrom(evs, j + 1, depth - 1)
    ELSE ChildrenFrom(evs, j + 1, depth)

ScriptElements == {"msub", "msup", "mfrac"}

\* C13: every msub, msup and mfrac the parser writes has exactly two child
\* elements, whatever the token sequence (checked on the fragments whose
\* events are balanced, where an element's children are well defined).
C13_ScriptArity ==
    (Done /\ Balanced(Fragment))
        => \A i \in 1..Len(Fragment) :
               (Fragment[i].k = "Start" /\ Fragment[i].name \in ScriptElements)
                   => ChildrenFrom(Fragment, i + 1, 0) = 2

============================================================================
